---- MODULE Spec2Model ----
(***************************************************************************)
(* Model of the Cursor usage-based-billing monitor worker (src/index.ts).  *)
(* A run (handleScheduled) reads the account list from KV, parses it, and  *)
(* walks the accounts one at a time: status check, optional disable call,  *)
(* notification.  Every await on an outbound call is a step boundary: an   *)
(* action is the code executed from the completion of one outbound call to *)
(* the issue of the next one.                                              *)
(***************************************************************************)
EXTENDS Integers, Sequences, FiniteSets, TLC

\* ------------------------------------------------------------------ bounds
MaxAccounts == 2      \* longest account list written to storage

\* -------------------------------------------------------- JavaScript values
\* A parsed JSON value.  Object fields are a set of <<name, value>> pairs.
JNull == [t |-> "null", n |-> 0, f |-> {}, elems |-> <<>>]
JNum(n) == [t |-> "num", n |-> n, f |-> {}, elems |-> <<>>]
JStr(chars) == [t |-> "str", n |-> 0, f |-> {}, elems |-> chars]
JObj(fields) == [t |-> "obj", n |-> 0, f |-> fields, elems |-> <<>>]
JArr(elems) == [t |-> "arr", n |-> 0, f |-> {}, elems |-> elems]

\* interface Account { email; cookie }
Account(email, cookie) == JObj({<<"email", email>>, <<"cookie", cookie>>})

\* The accounts an operator may have stored: identifiers are unique, and
\* the k-th account is the one that may stand at position k of the list.
Emails == <<"a@x.com", "b@x.com", "c@x.com">>
Cookies == <<"c1", "c2", "c3">>
AccountNo(k) == Account(Emails[k], Cookies[k])

\* Lexemes of the stored text.  The stored string is their concatenation.
LexAccounts ==
  <<"{\"email\":\"a@x.com\",\"cookie\":\"c1\"}",
    "{\"email\":\"b@x.com\",\"cookie\":\"c2\"}",
    "{\"email\":\"c@x.com\",\"cookie\":\"c3\"}">>
LexString == "\"s\""

Atoms == {"null", "5", "{}", LexString} \cup {LexAccounts[k] : k \in DOMAIN LexAccounts}

AtomValue(lex) ==
  CASE lex = "null" -> JNull
    [] lex = "5" -> JNum(5)
    [] lex = "{}" -> JObj({})
    [] lex = LexString -> JStr(<<"s">>)
    [] OTHER -> AccountNo(CHOOSE k \in DOMAIN LexAccounts : LexAccounts[k] = lex)

AtomLexeme(v) == CHOOSE lex \in Atoms : AtomValue(lex) = v

\* JSON.stringify restricted to atoms and arrays of atoms: how the operator
\* writes the cursor_accounts entry.
RECURSIVE JoinElems(_)
JoinElems(elems) ==
  IF Len(elems) = 0 THEN <<>>
  ELSE IF Len(elems) = 1 THEN <<AtomLexeme(elems[1])>>
  ELSE <<AtomLexeme(elems[1]), ",">> \o JoinElems(Tail(elems))

Stringify(v) ==
  IF v.t = "arr" THEN <<"[">> \o JoinElems(v.elems) \o <<"]">>
  ELSE <<AtomLexeme(v)>>

\* JSON.parse: recursive descent over the lexemes.  ParseValue returns
\* [ok, val, next]; ParseRest parses the elements after "[".
ParseFail == [ok |-> FALSE, val |-> JNull, next |-> 0]

RECURSIVE ParseValue(_, _)
RECURSIVE ParseRest(_, _, _)
ParseRest(text, pos, acc) ==
  LET r == ParseValue(text, pos) IN
  IF ~r.ok THEN ParseFail
  ELSE IF r.next > Len(text) THEN ParseFail
  ELSE IF text[r.next] = "]"
    THEN [ok |-> TRUE, val |-> JArr(Append(acc, r.val)), next |-> r.next + 1]
  ELSE IF text[r.next] = ","
    THEN ParseRest(text, r.next + 1, Append(acc, r.val))
  ELSE ParseFail

ParseValue(text, pos) ==
  IF pos > Len(text) THEN ParseFail
  ELSE IF text[pos] \in Atoms
    THEN [ok |-> TRUE, val |-> AtomValue(text[pos]), next |-> pos + 1]
  ELSE IF text[pos] = "["
    THEN IF pos + 1 <= Len(text) /\ text[pos + 1] = "]"
           THEN [ok |-> TRUE, val |-> JArr(<<>>), next |-> pos + 2]
           ELSE ParseRest(text, pos + 1, <<>>)
  ELSE ParseFail

\* JSON.parse(text): ok = FALSE stands for the SyntaxError it throws.
JSONParse(text) ==
  LET r == ParseValue(text, 1) IN
  IF r.ok /\ r.next = Len(text) + 1 THEN [ok |-> TRUE, val |-> r.val]
  ELSE [ok |-> FALSE, val |-> JNull]

\* value.name: a TypeError on null, undefined where the property is absent.
ThrowsOnGet(v) == v.t = "null"
HasProp(v, name) == \E p \in v.f : p[1] = name
GetProp(v, name) ==
  IF HasProp(v, name) THEN (CHOOSE p \in v.f : p[1] = name)[2] ELSE "undefined"

\* accounts.length: a TypeError on null, a number for arrays and strings,
\* undefined (-1 here) for every other value.
LengthOf(v) == IF v.t \in {"arr", "str"} THEN Len(v.elems) ELSE -1

\* for (const account of accounts): arrays yield their elements, strings
\* their characters, every other value is not iterable (TypeError).
Iterable(v) == v.t \in {"arr", "str"}
Items(v) ==
  IF v.t = "arr" THEN v.elems
  ELSE [k \in 1..Len(v.elems) |-> JStr(<<v.elems[k]>>)]

\* ------------------------------------------------------------ environment
\* The lists of n entries an operator may have stored: entry k is the k-th
\* account or null.
StoredLists(n) ==
  {[k \in 1..n |-> IF m[k] THEN AccountNo(k) ELSE JNull] : m \in [1..n -> BOOLEAN]}

StoredValues ==
  {JNull, JNum(5), JObj({}), JStr(<<"s">>)}
    \cup {JArr(es) : es \in UNION {StoredLists(n) : n \in 0..MaxAccounts}}

Prefixes(text) == {SubSeq(text, 1, k) : k \in 0..Len(text)}

\* What KV holds under 'cursor_accounts': nothing, or a text that is a
\* serialised value or a truncation of one (the empty string included).
NoEntry == [present |-> FALSE, text |-> <<>>]
StoredTexts == UNION {Prefixes(Stringify(v)) : v \in StoredValues}
KVContents == {NoEntry} \cup {[present |-> TRUE, text |-> t] : t \in StoredTexts}

WebhookKeys == {"", "key"}

\* GetHardLimitResponse: both fields optional ({} = absent).
NullStatus == [isNull |-> TRUE, noUsageBasedAllowed |-> {}, hardLimit |-> {}]
StatusBodies ==
  {NullStatus} \cup
  [isNull : {FALSE}, noUsageBasedAllowed : {{}, {TRUE}, {FALSE}},
   hardLimit : {{}, {-1}, {0}, {50}}]

\* Outcome of one outbound fetch: the transport throws, or a response with
\* response.ok, whose body parses or not (response.json() throws).
NetError == [net |-> "error", ok |-> FALSE, parses |-> FALSE]
HttpError == [net |-> "ok", ok |-> FALSE, parses |-> FALSE]
BadBody == [net |-> "ok", ok |-> TRUE, parses |-> FALSE]
GoodBody == [net |-> "ok", ok |-> TRUE, parses |-> TRUE]
NoOutcome == [net |-> "none", ok |-> FALSE, parses |-> FALSE]

\* The JSON object an error response carries: neither field present.
ErrorBody == [isNull |-> FALSE, noUsageBasedAllowed |-> {}, hardLimit |-> {}]

StatusOutcomes ==
  {[o |-> o, body |-> NullStatus] : o \in {NetError, BadBody}}
    \cup {[o |-> HttpError, body |-> ErrorBody]}
    \cup {[o |-> GoodBody, body |-> b] : b \in StatusBodies}
DisableOutcomes == {NetError, HttpError, GoodBody}
WebhookOutcomes ==
  {[o |-> o, errcode |-> 0] : o \in {NetError, HttpError, BadBody}}
    \cup {[o |-> GoodBody, errcode |-> e] : e \in {0, 93000}}
\* CURSOR_KV.get resolves (to null or to the text) or rejects.
KVOutcomes == {"value", "throw"}

\* ------------------------------------------------------------------ state
\* env    the bindings of the worker: the KV entry and the webhook key
\* runs   the invocations of handleScheduled, in the order they were started
\* trace  the log of calls: requests issued, their completions (with what the
\*        wrapper returned), calls of the notifier, entries into the catch
\*        block of the loop
\* acks   the responses the entry points have returned
\* slots  how many more runs the platform will start
VARIABLES env, runs, trace, acks, slots
vars == <<env, runs, trace, acks, slots>>

\* Notification texts, by the template that produced them.
Message(kind, email, limit) == [kind |-> kind, email |-> email, limit |-> limit]
NoMessage == Message("none", "", 0)
MsgMissingConfig == Message("missing_config", "", 0)
MsgBadJson == Message("bad_json", "", 0)
MsgExpired(email) == Message("cookie_expired", email, 0)
MsgDisabled(email, limit) == Message("disabled", email, limit)
MsgDisableFailed(email) == Message("disable_failed", email, 0)
MsgAccountError(email) == Message("account_error", email, 0)

\* One entry of the call log.
Event(run, idx, ev, cred, msg, status, res) ==
  [run |-> run, idx |-> idx, ev |-> ev, cred |-> cred, msg |-> msg,
   status |-> status, res |-> res]

NewRun(trigger) ==
  [trigger |-> trigger, pc |-> "kv", accounts |-> JNull, idx |-> 0,
   status |-> NullStatus, msg |-> NoMessage, after |-> "stop",
   last |-> "none", outcome |-> NoOutcome, errcode |-> 0, ret |-> FALSE]

\* One run, under every stored entry and every webhook key.
Init ==
  /\ env \in [kv : KVContents, key : WebhookKeys]
  /\ runs = <<>>
  /\ trace = <<>>
  /\ acks = {}
  /\ slots = 1

\* ----------------------------------------------- results of the leaf calls
sendWeChatNotificationResultNoErrcode(outcome) ==
  outcome.o.net # "error" /\ outcome.o.ok /\ outcome.o.parses

\* sendWeChatNotification, lines 56-72: what it returns once fetch and, on
\* a 2xx response, response.json() have settled.
sendWeChatNotificationResult(outcome) ==
  IF outcome.o.net = "error" THEN FALSE        \* catch
  ELSE IF ~outcome.o.ok THEN FALSE             \* !response.ok
  ELSE IF ~outcome.o.parses THEN FALSE         \* response.json() throws
  ELSE IF outcome.errcode # 0 THEN FALSE       \* result.errcode !== 0
  ELSE TRUE

checkHardLimitNoParseCatch(outcome) ==
  IF outcome.o.net = "error" THEN NullStatus
  ELSE IF ~outcome.o.ok THEN NullStatus
  ELSE IF ~outcome.o.parses THEN ErrorBody
  ELSE outcome.body

checkHardLimitNoOkTest(outcome) ==
  IF outcome.o.net = "error" THEN NullStatus
  ELSE IF ~outcome.o.parses /\ outcome.o.ok THEN NullStatus
  ELSE outcome.body

\* checkHardLimit, lines 94-103: the parsed body, or null, once fetch and,
\* on a 2xx response, response.json() have settled.
checkHardLimit(outcome) ==
  IF outcome.o.net = "error" THEN NullStatus
  ELSE IF ~outcome.o.ok THEN NullStatus
  ELSE IF ~outcome.o.parses THEN NullStatus
  ELSE outcome.body

\* disableHardLimit, lines 125-135: the body is not inspected.
disableHardLimit(outcome) ==
  IF outcome.net = "error" THEN FALSE
  ELSE IF ~outcome.ok THEN FALSE
  ELSE TRUE

FlagIsTrueUnlessLimit(status) ==
  status.noUsageBasedAllowed = {TRUE} /\ ~(\E h \in status.hardLimit : h > 0)

\* status.noUsageBasedAllowed === true (line 156)
FlagIsTrue(status) == status.noUsageBasedAllowed = {TRUE}

BillingEnabledNonZero(status) == \E h \in status.hardLimit : h # 0

\* status.hardLimit !== undefined && status.hardLimit > 0 (line 162)
BillingEnabled(status) == \E h \in status.hardLimit : h > 0

LimitOf(status) == CHOOSE h \in status.hardLimit : TRUE

\* ------------------------------------------------------ steps of one run
\* Each operator returns the run record after the step and the events the
\* step appends to the call log.
Step(r, events) == [run |-> r, events |-> events]

Finish(r) == Step([r EXCEPT !.pc = "done"], <<>>)
Reject(r) == Step([r EXCEPT !.pc = "rejected"], <<>>)

AccountAt(r, i) == Items(r.accounts)[i]
EmailAt(r, i) == GetProp(AccountAt(r, i), "email")
\* Every call carries the credential of the first account of the list.
CookieAtFirst(r, i) == GetProp(AccountAt(r, 1), "cookie")

CookieAt(r, i) == GetProp(AccountAt(r, i), "cookie")

\* One turn of the loop of handleScheduled (lines 223-233) up to the fetch
\* of checkHardLimit (line 82).  On a null element line 142 throws, the
\* catch block is entered and line 227 throws again out of handleScheduled.
StartAccount(rid, r, i) ==
  IF i > Len(Items(r.accounts)) THEN Finish([r EXCEPT !.idx = i])
  ELSE IF ThrowsOnGet(AccountAt(r, i))
    THEN Step([r EXCEPT !.pc = "rejected", !.idx = i],
              <<Event(rid, i, "caught", "", NoMessage, NullStatus, FALSE)>>)
  ELSE Step([r EXCEPT !.pc = "check", !.idx = i],
            <<Event(rid, i, "check", CookieAt(r, i), NoMessage, NullStatus, FALSE)>>)

ContinueStopOnFailure(rid, r) ==
  IF r.after = "stop" \/ ~r.ret THEN Finish(r) ELSE StartAccount(rid, r, r.idx + 1)

\* What follows the return of sendWeChatNotification / processAccount.
Continue(rid, r) ==
  IF r.after = "stop" THEN Finish(r) ELSE StartAccount(rid, r, r.idx + 1)

sendWeChatNotificationNoAwait(rid, r, webhookKey, message, after) ==
  LET call == Event(rid, r.idx, "notify", "", message, NullStatus, FALSE)
      k == Continue(rid, [r EXCEPT !.msg = message, !.after = after])
  IN Step(k.run,
          <<call, Event(rid, r.idx, "webhook", webhookKey, message, NullStatus,
                        FALSE)>> \o k.events)

\* sendWeChatNotification, lines 35-54: returns false at once on an empty
\* key, otherwise posts the message and awaits the response.
sendWeChatNotification(rid, r, webhookKey, message, after) ==
  LET call == Event(rid, r.idx, "notify", "", message, NullStatus, FALSE)
      r1 == [r EXCEPT !.msg = message, !.after = after]
  IN IF webhookKey = ""
       THEN LET k == Continue(rid, [r1 EXCEPT !.last = "notify", !.outcome = NoOutcome,
                                             !.errcode = 0, !.ret = FALSE])
            IN Step(k.run, <<call>> \o k.events)
       ELSE Step([r1 EXCEPT !.pc = "notify"],
                 <<call, Event(rid, r.idx, "webhook", webhookKey, message,
                               NullStatus, FALSE)>>)

afterNotifyRetry(rid, r, sent) ==
  IF sent THEN Continue(rid, r)
  ELSE Step([r EXCEPT !.pc = "notify"],
            <<Event(rid, r.idx, "notify", "", r.msg, NullStatus, FALSE),
              Event(rid, r.idx, "webhook", env.key, r.msg, NullStatus, FALSE)>>)

\* The callers of sendWeChatNotification (lines 148, 168, 173, 196, 208, 228)
\* await it and discard the boolean it returns.
afterNotify(rid, r, sent) == Continue(rid, r)

IsFalsyNullOnly(kv) == ~kv.present

\* !accountsJson (line 194): null and the empty string are both falsy.
IsFalsy(kv) == ~kv.present \/ kv.text = <<>>

onParseErrorRethrow(rid, r) == Reject(r)

\* The catch block of JSON.parse, lines 206-213.
onParseError(rid, r) ==
  sendWeChatNotification(rid, r, env.key, MsgBadJson, "stop")

onEmptyListNotify(rid, r) ==
  sendWeChatNotification(rid, r, env.key, MsgMissingConfig, "stop")

\* accounts.length === 0, lines 215-218: log and return.
onEmptyList(rid, r) == Finish(r)

\* handleScheduled, lines 192-225, from the return of CURSOR_KV.get.
handleScheduled(rid, r, kvOutcome) ==
  LET done == Event(rid, 0, "kv.done", "", NoMessage, NullStatus,
                   kvOutcome = "value")
      parsed == JSONParse(env.kv.text)
      accounts == parsed.val
      r1 == [r EXCEPT !.accounts = accounts]
      k == IF kvOutcome = "throw" THEN Reject(r)
           ELSE IF IsFalsy(env.kv)
             THEN sendWeChatNotification(rid, r, env.key, MsgMissingConfig, "stop")
           ELSE IF ~parsed.ok THEN onParseError(rid, r)
           ELSE IF accounts.t = "null" THEN Reject(r1)       \* null.length
           ELSE IF LengthOf(accounts) = 0 THEN onEmptyList(rid, r1)
           ELSE IF ~Iterable(accounts) THEN Reject(r1)       \* for..of
           ELSE StartAccount(rid, r1, 1)
  IN Step(k.run, <<done>> \o k.events)

\* processAccount, lines 144-181, from the return of checkHardLimit.
processAccount(rid, r, status) ==
  LET email == EmailAt(r, r.idx)
      r1 == [r EXCEPT !.status = status, !.after = "next"]
  IN IF status.isNull
       THEN sendWeChatNotification(rid, r1, env.key, MsgExpired(email), "next")
     ELSE IF FlagIsTrue(status) THEN Continue(rid, r1)
     ELSE IF BillingEnabled(status)
       THEN Step([r1 EXCEPT !.pc = "disable"],
                 <<Event(rid, r.idx, "disable", CookieAt(r, r.idx), NoMessage,
                         NullStatus, FALSE)>>)
     ELSE Continue(rid, r1)

afterDisableRetry(rid, r, success) ==
  IF success
    THEN sendWeChatNotification(rid, r, env.key,
                                MsgDisabled(EmailAt(r, r.idx), LimitOf(r.status)), "next")
    ELSE Step([r EXCEPT !.pc = "disable"],
              <<Event(rid, r.idx, "disable", CookieAt(r, r.idx), NoMessage,
                      NullStatus, FALSE)>>)

afterDisableAlwaysDisabled(rid, r, success) ==
  sendWeChatNotification(rid, r, env.key,
                         MsgDisabled(EmailAt(r, r.idx), LimitOf(r.status)), "next")

\* processAccount, lines 167-178, from the return of disableHardLimit.
afterDisable(rid, r, success) ==
  LET email == EmailAt(r, r.idx) IN
  IF success
    THEN sendWeChatNotification(rid, r, env.key,
                                MsgDisabled(email, LimitOf(r.status)), "next")
    ELSE sendWeChatNotification(rid, r, env.key, MsgDisableFailed(email), "next")

\* ---------------------------------------------------------------- actions
Apply(rid, k) ==
  /\ runs' = [runs EXCEPT ![rid] = k.run]
  /\ trace' = trace \o k.events

\* A response of an entry point: the HTTP status, the 'status' field of the
\* JSON body and the names of the fields of the body.  run is the run the
\* invocation started, 0 if it started none.
Respond(entry, path, rid) ==
  [entry |-> entry, path |-> path, code |-> 200, run |-> rid,
   status |-> CASE entry = "scheduled" -> ""
                [] path = "/check" -> "ok"
                [] path = "/health" -> "healthy"
                [] OTHER -> "",
   fields |-> CASE entry = "scheduled" -> {}
                [] path = "/check" -> {"status", "message"}
                [] path = "/health" -> {"status", "timestamp"}
                [] OTHER -> {"name", "endpoints"}]

StartRunNoAck(entry, path) ==
  /\ slots > 0
  /\ slots' = slots - 1
  /\ runs' = Append(runs, NewRun(entry))
  /\ trace' = Append(trace, Event(Len(runs) + 1, 0, "kv.get", "", NoMessage,
                                  NullStatus, FALSE))
  /\ acks' = acks

\* ctx.waitUntil(handleScheduled(env)) (lines 243, 254): handleScheduled runs
\* up to its first await, the storage read, and the entry point returns.
\* A run-level lock: a trigger starts a run only when no run is in progress.
StartRunLocked(entry, path) ==
  LET rid == Len(runs) + 1 IN
  /\ slots > 0
  /\ \A q \in DOMAIN runs : runs[q].pc \in {"done", "rejected"}
  /\ slots' = slots - 1
  /\ runs' = Append(runs, NewRun(entry))
  /\ trace' = Append(trace, Event(rid, 0, "kv.get", "", NoMessage, NullStatus, FALSE))
  /\ acks' = acks \cup {Respond(entry, path, rid)}

StartRun(entry, path) ==
  LET rid == Len(runs) + 1 IN
  /\ slots > 0
  /\ slots' = slots - 1
  /\ runs' = Append(runs, NewRun(entry))
  /\ trace' = Append(trace, Event(rid, 0, "kv.get", "", NoMessage, NullStatus, FALSE))
  /\ acks' = acks \cup {Respond(entry, path, rid)}

\* scheduled (lines 242-244): ctx.waitUntil(handleScheduled(env)).
scheduled ==
  /\ StartRun("scheduled", "")
  /\ UNCHANGED env

Paths == {"/check", "/health", "/"}

fetchPrefixMatch(path) ==
  IF path \in {"/check", "/health"}
    THEN StartRun("fetch", "/check") /\ UNCHANGED env
    ELSE /\ acks' = acks \cup {Respond("fetch", path, 0)}
         /\ UNCHANGED <<env, runs, trace, slots>>

\* fetch (lines 249-282); "/" stands for every path that matches no route.
fetch(path) ==
  IF path = "/check"
    THEN StartRun("fetch", path) /\ UNCHANGED env
    ELSE /\ acks' = acks \cup {Respond("fetch", path, 0)}
         /\ UNCHANGED <<env, runs, trace, slots>>

\* The storage read of a run settles.
KVGetReturn(rid, kvOutcome) ==
  /\ runs[rid].pc = "kv"
  /\ Apply(rid, handleScheduled(rid, [runs[rid] EXCEPT !.last = "kv", !.ret = (kvOutcome = "value")],
                                kvOutcome))
  /\ UNCHANGED <<env, acks, slots>>

\* fetch resolved with response.ok: the function goes on to
\* await response.json() (lines 94-99 and 56-61), a second wait.
AwaitsBody(o) == o.net = "ok" /\ o.ok

\* checkHardLimit returns to processAccount (line 144), which runs up to
\* its next awaited call.
CheckDone(rid, outcome) ==
  LET r == runs[rid]
      status == checkHardLimit(outcome)
      k == processAccount(rid, [r EXCEPT !.last = "check", !.outcome = outcome.o,
                                      !.ret = ~status.isNull],
                          status)
  IN Apply(rid, Step(k.run,
             <<Event(rid, r.idx, "check.done", CookieAt(r, r.idx), NoMessage,
                     status, ~status.isNull)>> \o k.events))

\* The status request of a run settles (line 82).  On a 2xx response the run
\* waits again, for the body; otherwise checkHardLimit returns null.
CheckReturn(rid, outcome) ==
  /\ runs[rid].pc = "check"
  /\ IF AwaitsBody(outcome.o)
       THEN Apply(rid, Step([runs[rid] EXCEPT !.pc = "check.json"], <<>>))
       ELSE CheckDone(rid, outcome)
  /\ UNCHANGED <<env, acks, slots>>

\* The body read of the status response settles (line 99): response.json()
\* resolves to the parsed body or rejects.
CheckBodyReturn(rid, outcome) ==
  /\ runs[rid].pc = "check.json"
  /\ AwaitsBody(outcome.o)
  /\ CheckDone(rid, outcome)
  /\ UNCHANGED <<env, acks, slots>>

\* The disable request of a run settles.
DisableReturn(rid, outcome) ==
  LET r == runs[rid]
      success == disableHardLimit(outcome)
      k == afterDisable(rid, [r EXCEPT !.last = "disable", !.outcome = outcome,
                                   !.ret = success], success)
  IN /\ r.pc = "disable"
     /\ Apply(rid, Step(k.run,
                <<Event(rid, r.idx, "disable.done", CookieAt(r, r.idx), NoMessage,
                        NullStatus, success)>> \o k.events))
     /\ UNCHANGED <<env, acks, slots>>

\* sendWeChatNotification returns to its caller, which runs up to its next
\* awaited call.
NotifyDone(rid, outcome) ==
  LET r == runs[rid]
      sent == sendWeChatNotificationResult(outcome)
      k == afterNotify(rid, [r EXCEPT !.last = "notify", !.outcome = outcome.o,
                                  !.errcode = outcome.errcode, !.ret = sent], sent)
  IN Apply(rid, Step(k.run,
             <<Event(rid, r.idx, "webhook.done", env.key, r.msg, NullStatus,
                     FALSE)>> \o k.events))

\* The webhook request of a run settles (line 43).  On a 2xx response the
\* run waits again, for the body; otherwise the notifier returns false.
NotifyReturn(rid, outcome) ==
  /\ runs[rid].pc = "notify"
  /\ IF AwaitsBody(outcome.o)
       THEN Apply(rid, Step([runs[rid] EXCEPT !.pc = "notify.json"], <<>>))
       ELSE NotifyDone(rid, outcome)
  /\ UNCHANGED <<env, acks, slots>>

\* The body read of the webhook response settles (line 61).
NotifyBodyReturn(rid, outcome) ==
  /\ runs[rid].pc = "notify.json"
  /\ AwaitsBody(outcome.o)
  /\ NotifyDone(rid, outcome)
  /\ UNCHANGED <<env, acks, slots>>

Next ==
  \/ scheduled
  \/ \E path \in Paths : fetch(path)
  \/ \E rid \in DOMAIN runs, o \in KVOutcomes : KVGetReturn(rid, o)
  \/ \E rid \in DOMAIN runs, o \in StatusOutcomes : CheckReturn(rid, o)
  \/ \E rid \in DOMAIN runs, o \in StatusOutcomes : CheckBodyReturn(rid, o)
  \/ \E rid \in DOMAIN runs, o \in DisableOutcomes : DisableReturn(rid, o)
  \/ \E rid \in DOMAIN runs, o \in WebhookOutcomes : NotifyReturn(rid, o)
  \/ \E rid \in DOMAIN runs, o \in WebhookOutcomes : NotifyBodyReturn(rid, o)

Spec == Init /\ [][Next]_vars

\* The platform settles every pending promise: the storage read, each
\* outbound fetch and each body read eventually return, successfully or not.
\* A run awaits one call at a time, so this is one condition per run.
Settle(rid) ==
  /\ rid \in DOMAIN runs
  /\ \/ \E o \in KVOutcomes : KVGetReturn(rid, o)
     \/ \E o \in StatusOutcomes : CheckReturn(rid, o)
     \/ \E o \in StatusOutcomes : CheckBodyReturn(rid, o)
     \/ \E o \in DisableOutcomes : DisableReturn(rid, o)
     \/ \E o \in WebhookOutcomes : NotifyReturn(rid, o)
     \/ \E o \in WebhookOutcomes : NotifyBodyReturn(rid, o)

Fairness == WF_vars(Settle(1))

\* The steps that start a run or belong to one.  Requests to /health and to
\* unmatched paths are left out: they change nothing a run reads.
NextRun ==
  \/ scheduled
  \/ fetch("/check")
  \/ \E rid \in DOMAIN runs : Settle(rid)

FairSpec == Init /\ [][NextRun]_vars /\ Fairness

\* ------------------------------------------------------------- properties
\* Positions of the log entries of one kind for one account of one run.
Idx(rid, i, ev) ==
  {k \in DOMAIN trace : trace[k].run = rid /\ trace[k].idx = i /\ trace[k].ev = ev}

\* Positions of the log entries of one kind for one run.
RunIdx(rid, ev) == {k \in DOMAIN trace : trace[k].run = rid /\ trace[k].ev = ev}

\* The run has left account i behind (or has ended).
Finished(rid, i) == runs[rid].pc \in {"done", "rejected"} \/ runs[rid].idx > i

\* The identifier the messages of account i carry.
EmailOf(rid, i) == GetProp(Items(runs[rid].accounts)[i], "email")

\* The webhook posts of an account are exactly its notification calls when a
\* key is configured, and none otherwise.
PostsMatch(rid, i) ==
  LET N == Idx(rid, i, "notify")
      W == Idx(rid, i, "webhook")
  IN /\ Cardinality(W) = IF env.key = "" THEN 0 ELSE Cardinality(N)
     /\ \A w \in W : \E n \in N : n < w /\ trace[w].msg = trace[n].msg

\* C1: an account whose status check succeeds with noUsageBasedAllowed absent
\* or false and hardLimit > 0 gets exactly one disable call and then exactly
\* one notification, 'disabled' (with the limit) if the disable call returned
\* true and 'disable failed, handle manually' if it returned false.
C1_EnabledIsDisabledAndReported ==
  \A k \in DOMAIN trace :
    LET e == trace[k]
        D == Idx(e.run, e.idx, "disable")
        DD == Idx(e.run, e.idx, "disable.done")
        N == Idx(e.run, e.idx, "notify")
    IN (/\ e.ev = "check.done"
        /\ ~e.status.isNull
        /\ e.status.noUsageBasedAllowed \in {{}, {FALSE}}
        /\ \E h \in e.status.hardLimit : h > 0)
       => /\ Cardinality(D) = 1
          /\ \A d \in D : d > k
          /\ Cardinality(DD) <= 1
          /\ Cardinality(N) = Cardinality(DD)
          /\ \A d \in DD : \A n \in N :
               /\ d < n
               /\ \A h \in e.status.hardLimit :
                    trace[n].msg =
                      IF trace[d].res
                        THEN Message("disabled", EmailOf(e.run, e.idx), h)
                        ELSE Message("disable_failed", EmailOf(e.run, e.idx), 0)
          /\ PostsMatch(e.run, e.idx)
          /\ Finished(e.run, e.idx) => Cardinality(N) = 1

\* A completed run that disabled one account and failed to disable another.
C1_Witness ==
  \E rid \in DOMAIN runs :
    /\ runs[rid].pc = "done"
    /\ \E a, b \in RunIdx(rid, "disable.done") :
         /\ trace[a].res /\ ~trace[b].res
         /\ Cardinality(Idx(rid, trace[a].idx, "notify")) = 1
         /\ Cardinality(Idx(rid, trace[b].idx, "notify")) = 1

\* C2: an account whose status check returns noUsageBasedAllowed === true
\* gets no disable call and no notification, whatever hardLimit is.
C2_FlagWins ==
  \A k \in DOMAIN trace :
    LET e == trace[k] IN
    (e.ev = "check.done" /\ ~e.status.isNull /\ e.status.noUsageBasedAllowed = {TRUE})
      => /\ Idx(e.run, e.idx, "disable") = {}
         /\ Idx(e.run, e.idx, "notify") = {}
         /\ Idx(e.run, e.idx, "webhook") = {}

\* The run has moved past an account reported with the flag and a limit of 50.
C2_Witness ==
  \E k \in DOMAIN trace :
    /\ trace[k].ev = "check.done"
    /\ trace[k].status.noUsageBasedAllowed = {TRUE}
    /\ trace[k].status.hardLimit = {50}
    /\ Finished(trace[k].run, trace[k].idx)

\* The log entry of the call that settled last in a run.
LastDone(rid, ev) ==
  {k \in RunIdx(rid, ev) : \A j \in RunIdx(rid, ev) : j <= k}

\* C3: an account whose status check fails (network error, non-2xx status,
\* unparseable body: checkHardLimit returns null) gets exactly one 'cookie may
\* have expired' notification and no disable call.
C3_FailedCheckIsReported ==
  /\ \A rid \in DOMAIN runs :
       (runs[rid].last = "check" /\ runs[rid].outcome # GoodBody)
         => \A k \in LastDone(rid, "check.done") : trace[k].status.isNull
  /\ \A k \in DOMAIN trace :
       LET e == trace[k]
           N == Idx(e.run, e.idx, "notify")
       IN (e.ev = "check.done" /\ e.status.isNull)
          => /\ Cardinality(N) = 1
             /\ \A n \in N : /\ n > k
                             /\ trace[n].msg =
                                  Message("cookie_expired", EmailOf(e.run, e.idx), 0)
             /\ Idx(e.run, e.idx, "disable") = {}
             /\ PostsMatch(e.run, e.idx)

\* The second status check of a run has just met a non-2xx response, after
\* the first one failed as well.
C3_Witness ==
  \E rid \in DOMAIN runs :
    /\ runs[rid].last = "check" /\ runs[rid].outcome = HttpError
    /\ Cardinality(RunIdx(rid, "notify")) = 2
    /\ \A k \in RunIdx(rid, "check.done") : trace[k].status.isNull

\* The storage read of the run returned (it did not throw).
ReadReturned(rid) == \E k \in RunIdx(rid, "kv.done") : trace[k].res

\* The texts that are valid JSON, and those that are a JSON array.
ValidTexts == {Stringify(v) : v \in StoredValues}
ListTexts == {Stringify(v) : v \in {w \in StoredValues : w.t = "arr"}}

\* The run made no status check and no disable call.
NoAccountProcessed(rid) ==
  /\ RunIdx(rid, "check") = {}
  /\ RunIdx(rid, "disable") = {}
  /\ RunIdx(rid, "caught") = {}

\* The run made exactly one notification call, with this message, posted to
\* the webhook when a key is configured.
OneFatalNotification(rid, msg) ==
  /\ Cardinality(RunIdx(rid, "notify")) = 1
  /\ \A n \in RunIdx(rid, "notify") : trace[n].msg = msg
  /\ PostsMatch(rid, 0)
  /\ Cardinality(RunIdx(rid, "webhook")) <= 1

\* C4 (as claimed): when processing the account at position N raises, exactly
\* one error notification for N is sent and the run goes on with N+1; a null
\* entry included.
C4_ErrorIsIsolated ==
  \A k \in DOMAIN trace :
    LET e == trace[k]
        N == Idx(e.run, e.idx, "notify")
    IN e.ev = "caught"
       => /\ Cardinality(N) = 1
          /\ \A n \in N : trace[n].msg.kind = "account_error"
          /\ runs[e.run].pc # "rejected"

\* C5: a missing or empty storage entry gives exactly one 'account
\* configuration missing' notification and no account processing.
C5_MissingConfigIsFatal ==
  \A rid \in DOMAIN runs :
    (ReadReturned(rid) /\ (~env.kv.present \/ env.kv.text = <<>>))
      => /\ OneFatalNotification(rid, Message("missing_config", "", 0))
         /\ NoAccountProcessed(rid)
         /\ runs[rid].pc \in {"notify", "notify.json", "done"}

\* A completed run that found no entry under the key.
C5_Witness ==
  \E rid \in DOMAIN runs :
    /\ runs[rid].pc = "done"
    /\ ~env.kv.present
    /\ Cardinality(RunIdx(rid, "notify")) = 1

\* C6: a stored text that is not valid JSON gives exactly one fatal
\* notification, worded differently from the missing-configuration one, and
\* no account processing.
C6_BadJsonIsFatal ==
  \A rid \in DOMAIN runs :
    (/\ ReadReturned(rid)
     /\ env.kv.present /\ env.kv.text # <<>>
     /\ env.kv.text \notin ValidTexts)
      => /\ OneFatalNotification(rid, Message("bad_json", "", 0))
         /\ \A n \in RunIdx(rid, "notify") :
              trace[n].msg # Message("missing_config", "", 0)
         /\ NoAccountProcessed(rid)
         /\ runs[rid].pc \in {"notify", "notify.json", "done"}

\* A completed run over a truncated list.
C6_Witness ==
  \E rid \in DOMAIN runs :
    /\ runs[rid].pc = "done"
    /\ env.kv.present /\ Len(env.kv.text) > 1
    /\ env.kv.text \notin ValidTexts
    /\ Cardinality(RunIdx(rid, "notify")) = 1

\* C7 (as claimed): a stored text that is not a list of accounts, valid JSON
\* that is not an array included, gives the fatal malformed-configuration
\* notification and no account processing.
C7_NonListIsFatal ==
  \A rid \in DOMAIN runs :
    (/\ ReadReturned(rid)
     /\ env.kv.present /\ env.kv.text # <<>>
     /\ env.kv.text \notin ListTexts)
      => /\ \E n \in RunIdx(rid, "notify") : trace[n].msg.kind = "bad_json"
         /\ NoAccountProcessed(rid)
         /\ runs[rid].pc # "rejected"

\* C8: a stored text that parses to the empty list ends the run with no
\* notification, no status check and no disable call.
C8_EmptyListIsSilent ==
  \A rid \in DOMAIN runs :
    (ReadReturned(rid) /\ env.kv.present /\ env.kv.text = <<"[", "]">>)
      => /\ runs[rid].pc = "done"
         /\ RunIdx(rid, "notify") = {}
         /\ RunIdx(rid, "webhook") = {}
         /\ NoAccountProcessed(rid)

\* A completed run over the empty list.
C8_Witness ==
  \E rid \in DOMAIN runs :
    /\ runs[rid].pc = "done"
    /\ runs[rid].last = "kv"
    /\ runs[rid].accounts = JArr(<<>>)
    /\ env.kv.text = <<"[", "]">>

\* The log entry that closes an outbound call.
DoneOf(ev) ==
  CASE ev = "kv.get" -> "kv.done"
    [] ev = "check" -> "check.done"
    [] ev = "disable" -> "disable.done"
    [] ev = "webhook" -> "webhook.done"

Requests == {"kv.get", "check", "disable", "webhook"}

\* C9: within a run the accounts are processed in list order, one at a time:
\* every outbound call has completed before the next one starts, positions
\* never go back, and the j-th status check is for the j-th list entry.
C9_Sequential ==
  \A rid \in DOMAIN runs :
    /\ \A k, l \in DOMAIN trace :
         (k < l /\ trace[k].run = rid /\ trace[l].run = rid)
           => /\ trace[k].idx <= trace[l].idx
              /\ (trace[k].ev \in Requests /\ trace[l].ev \in Requests)
                   => \E m \in DOMAIN trace :
                        /\ k < m /\ m < l
                        /\ trace[m].run = rid
                        /\ trace[m].idx = trace[k].idx
                        /\ trace[m].ev = DoneOf(trace[k].ev)
    /\ \A k \in RunIdx(rid, "check") :
         /\ trace[k].idx = Cardinality({j \in RunIdx(rid, "check") : j <= k})
         /\ trace[k].cred = GetProp(Items(runs[rid].accounts)[trace[k].idx], "cookie")

\* A completed run that notified about its first account and then about its
\* second.
C9_Witness ==
  \E rid \in DOMAIN runs :
    /\ runs[rid].pc = "done"
    /\ \E a \in Idx(rid, 1, "webhook.done") : \E b \in Idx(rid, 2, "webhook") : a < b
    /\ Idx(rid, 1, "disable") # {}

\* C10 (as claimed): whatever the stored text and whatever the outbound calls
\* return, handleScheduled completes normally.
C10_NothingBubbles ==
  \A rid \in DOMAIN runs : ReadReturned(rid) => runs[rid].pc # "rejected"
\* No notification is attempted twice: per run and list position (0 for the
\* fatal messages) at most one call of the notifier and one webhook request.
NoRetry ==
  \A k \in DOMAIN trace :
    trace[k].ev \in {"notify", "webhook"}
      => Cardinality(Idx(trace[k].run, trace[k].idx, trace[k].ev)) = 1

\* A step in which a webhook request settles leaves the run, but for the
\* recorded outcome, where a delivered notification would have left it, and
\* issues the calls a delivered notification would have been followed by.
NotifyOutcomeIgnored ==
  \A rid \in DOMAIN runs :
    /\ (runs[rid].pc = "notify" /\ runs'[rid].pc = "notify.json")
         => (trace' = trace /\ runs'[rid] = [runs[rid] EXCEPT !.pc = "notify.json"])
    /\ (/\ runs[rid].pc \in {"notify", "notify.json"}
        /\ runs'[rid] # runs[rid]
        /\ runs'[rid].pc # "notify.json")
      => LET ref == Continue(rid, [runs[rid] EXCEPT !.last = "notify",
                                                    !.outcome = GoodBody,
                                                    !.errcode = 0,
                                                    !.ret = TRUE])
         IN /\ [runs'[rid] EXCEPT !.outcome = GoodBody, !.errcode = 0,
                                  !.ret = TRUE] = ref.run
            /\ SubSeq(trace', Len(trace) + 2, Len(trace')) = ref.events
            /\ trace'[Len(trace) + 1].ev = "webhook.done"

\* C11: a failed notification attempt (empty key, transport error, non-2xx,
\* errcode other than 0) is not repeated and causes no other notification,
\* and the run goes on with the status checks and disable calls that follow
\* a delivered notification.
C11_NotifyFailureIsNotEscalated == []NoRetry /\ [][NotifyOutcomeIgnored]_vars

\* The webhook answered the notification about the first account with a
\* non-2xx status and the run has issued the status check of the second.
C11_Witness ==
  \E rid \in DOMAIN runs :
    /\ runs[rid].last = "notify" /\ ~runs[rid].ret
    /\ runs[rid].outcome = HttpError
    /\ runs[rid].pc = "check" /\ runs[rid].idx = 2
    /\ Cardinality(RunIdx(rid, "notify")) = 1
\* C12: sendWeChatNotification returns true only after a webhook request that
\* completed with a success status and errcode 0; with an empty key it returns
\* false and no webhook request is made; it never raises: a run that ended in
\* an error after a notification did so in the loop turn of the next entry.
C12_NotifierContract ==
  \A rid \in DOMAIN runs :
    LET r == runs[rid] IN
    /\ (r.last = "notify" /\ r.ret)
         => /\ r.outcome = GoodBody /\ r.errcode = 0
            /\ env.key # ""
            /\ \E k \in RunIdx(rid, "webhook.done") :
                 \A j \in DOMAIN trace :
                   (j > k /\ trace[j].run = rid) => trace[j].ev \in {"check", "caught"}
    /\ env.key = ""
         => /\ RunIdx(rid, "webhook") = {}
            /\ r.last = "notify" => (~r.ret /\ r.outcome = NoOutcome)
    /\ (r.last = "notify" /\ r.pc = "rejected")
         => /\ Idx(rid, r.idx, "caught") # {}
            /\ Idx(rid, r.idx, "notify") = {}

\* The webhook accepted the request but answered with an errcode other than
\* 0, and the notifier returned false.
C12_Witness ==
  \E rid \in DOMAIN runs :
    /\ runs[rid].last = "notify"
    /\ runs[rid].outcome = GoodBody /\ runs[rid].errcode # 0
    /\ ~runs[rid].ret
    /\ runs[rid].pc \in {"done", "check"}
\* C13: checkHardLimit never raises: a network error, a non-2xx status and an
\* unparseable body all make it return null, and every call of it makes
\* exactly one request.
C13_CheckerContract ==
  \A rid \in DOMAIN runs :
    LET r == runs[rid] IN
    /\ (r.last = "check" /\ r.outcome \in {NetError, HttpError, BadBody})
         => /\ ~r.ret
            /\ r.pc # "rejected"
            /\ \A k \in LastDone(rid, "check.done") :
                 /\ trace[k].status = NullStatus
                 /\ ~trace[k].res
                 /\ trace[k].idx = r.idx
    /\ (r.last = "check" /\ r.pc = "rejected")
         => (r.outcome = GoodBody /\ Idx(rid, r.idx, "caught") # {}
             /\ Idx(rid, r.idx, "check") = {})
    /\ \A k \in RunIdx(rid, "check.done") :
         /\ Cardinality(Idx(rid, trace[k].idx, "check")) = 1
         /\ Cardinality(Idx(rid, trace[k].idx, "check.done")) = 1
         /\ \A c \in Idx(rid, trace[k].idx, "check") : c < k
    /\ Cardinality(RunIdx(rid, "check")) =
         Cardinality(RunIdx(rid, "check.done"))
           + (IF r.pc \in {"check", "check.json"} THEN 1 ELSE 0)

\* The status request of the second account got a body that does not parse.
C13_Witness ==
  \E rid \in DOMAIN runs :
    /\ runs[rid].last = "check" /\ runs[rid].outcome = BadBody
    /\ runs[rid].idx = 2
    /\ \A k \in LastDone(rid, "check.done") : trace[k].status.isNull
\* Every run has exactly one acknowledgement, fixed by the entry point alone:
\* HTTP 200 with status 'ok' from /check, a plain return from the timer.
AckOfRun ==
  \A rid \in DOMAIN runs :
    \E a \in acks :
      /\ a.run = rid
      /\ a.entry = runs[rid].trigger
      /\ a.code = 200
      /\ a.entry = "fetch" => (a.path = "/check" /\ a.status = "ok")
      /\ a.entry = "scheduled" => a.status = ""
      /\ \A b \in acks : b.run = rid => b = a

\* The acknowledgement is returned in the step that starts the run, when no
\* call of the run has settled, and no later step changes or removes it.
AckBeforeRun ==
  /\ acks \subseteq acks'
  /\ Len(runs') > Len(runs)
       => /\ Len(runs') = Len(runs) + 1
          /\ \E a \in acks' \ acks : a.run = Len(runs')
          /\ runs'[Len(runs')].pc = "kv"
          /\ runs'[Len(runs')].last = "none"
  /\ \A a \in acks' \ acks : a.run # 0 => (a.run = Len(runs') /\ Len(runs') > Len(runs))

\* C14: /check and the timer acknowledge at once: the run is started and the
\* response returned before the run has completed, and the response is the
\* same whatever the run finds later.
C14_AckWithoutWaiting == []AckOfRun /\ [][AckBeforeRun]_vars

\* A run started by /check that ended after a failed disable call, with its
\* 'ok' acknowledgement.
C14_Witness ==
  \E rid \in DOMAIN runs :
    /\ runs[rid].trigger = "fetch"
    /\ runs[rid].pc = "done"
    /\ \E d \in RunIdx(rid, "disable.done") : ~trace[d].res
    /\ \E a \in acks : a.run = rid /\ a.status = "ok"
\* The responses to /health and to unmatched paths: HTTP 200, started no run;
\* /health carries status 'healthy' and a timestamp.  /health is answered in
\* every state.
ProbeResponses ==
  /\ \A a \in acks :
       (a.entry = "fetch" /\ a.path # "/check")
         => /\ a.code = 200 /\ a.run = 0
            /\ a.path = "/health" => (a.status = "healthy" /\ "timestamp" \in a.fields)
            /\ a.path # "/health" => a.fields = {"name", "endpoints"}
  /\ ENABLED fetch("/health")

\* A step that answers /health or an unmatched path starts no run, reads no
\* storage and makes no outbound call.
ProbeFrame ==
  (\E a \in acks' \ acks : a.entry = "fetch" /\ a.path # "/check")
    => UNCHANGED <<env, runs, trace, slots>>

\* C15: /health always answers 200 with status 'healthy' and a timestamp,
\* whatever the storage and the network do; handling it, or any path other
\* than /check, starts no run, reads no storage and makes no outbound call.
C15_HealthIsPure == []ProbeResponses /\ [][ProbeFrame]_vars

\* /health and an unmatched path were answered although the stored entry is
\* not a list and the run on it ended in an error.
C15_Witness ==
  /\ \E a \in acks : a.path = "/health" /\ a.status = "healthy"
  /\ \E a \in acks : a.path = "/"
  /\ \E rid \in DOMAIN runs : runs[rid].pc = "rejected"
  /\ Len(trace) = 2
\* C16: a disable call is made for an account only after that run's status
\* check of it returned a status with noUsageBasedAllowed not true and
\* hardLimit > 0; a status with the flag absent or false and hardLimit absent
\* or 0 leads to no disable call and no notification.
C16_DisableOnlyWhenEnabled ==
  \A k \in DOMAIN trace :
    LET e == trace[k] IN
    /\ e.ev = "disable"
         => \E c \in Idx(e.run, e.idx, "check.done") :
              /\ c < k
              /\ ~trace[c].status.isNull
              /\ trace[c].status.noUsageBasedAllowed # {TRUE}
              /\ \E h \in trace[c].status.hardLimit : h > 0
    /\ (/\ e.ev = "check.done"
        /\ ~e.status.isNull
        /\ e.status.noUsageBasedAllowed \in {{}, {FALSE}}
        /\ e.status.hardLimit \in {{}, {0}})
         => /\ Idx(e.run, e.idx, "disable") = {}
            /\ Idx(e.run, e.idx, "notify") = {}
            /\ Idx(e.run, e.idx, "webhook") = {}

\* The run has moved past an account reported with the flag false and a limit
\* of 0, and past one reported with a limit below 0.
C16_Witness ==
  \E rid \in DOMAIN runs :
    /\ \E k \in RunIdx(rid, "check.done") :
         /\ trace[k].status.noUsageBasedAllowed = {FALSE}
         /\ trace[k].status.hardLimit = {0}
         /\ Finished(rid, trace[k].idx)
    /\ \E k \in RunIdx(rid, "check.done") :
         /\ trace[k].status.hardLimit = {-1}
         /\ Finished(rid, trace[k].idx)

\* C17: no call is repeated: per run and list position at most one status
\* request, one disable request and one notification (call and webhook
\* request), and a run reads the stored entry exactly once.
C17_NoCallIsRetried ==
  /\ \A k \in DOMAIN trace :
       trace[k].ev \in {"check", "disable", "notify", "webhook",
                        "check.done", "disable.done", "webhook.done"}
         => Cardinality(Idx(trace[k].run, trace[k].idx, trace[k].ev)) = 1
  /\ \A rid \in DOMAIN runs :
       /\ Cardinality(RunIdx(rid, "kv.get")) = 1
       /\ Cardinality(RunIdx(rid, "kv.done")) <= 1

\* A completed run whose disable call for the first account failed and whose
\* status check of the second failed.
C17_Witness ==
  \E rid \in DOMAIN runs :
    /\ runs[rid].pc = "done"
    /\ \E d \in Idx(rid, 1, "disable.done") : ~trace[d].res
    /\ \E c \in Idx(rid, 2, "check.done") : trace[c].status.isNull
    /\ Cardinality(RunIdx(rid, "kv.get")) = 1
\* The well-formed non-empty lists: n account objects, n >= 1.
WellFormedLists == {[k \in 1..n |-> AccountNo(k)] : n \in 1..MaxAccounts}
WellFormedStored ==
  env.kv.present /\ \E es \in WellFormedLists : env.kv.text = Stringify(JArr(es))
StoredCount == CHOOSE n \in 1..MaxAccounts : Len(env.kv.text) = 2 * n + 1

\* The run has completed after exactly one status check per stored account.
Completed(rid) ==
  /\ rid \in DOMAIN runs
  /\ WellFormedStored
  /\ runs[rid].pc = "done"
  /\ Cardinality(RunIdx(rid, "check")) = StoredCount
  /\ \A i \in 1..StoredCount : Cardinality(Idx(rid, i, "check.done")) = 1

\* C18 (as claimed): over a well-formed non-empty stored list, a run whose
\* storage read and outbound calls have all returned, successfully or not, has
\* completed after one status check per account.
C18_RunCompletesAsClaimed ==
  \A rid \in DOMAIN runs :
    (WellFormedStored /\ runs[rid].pc \in {"done", "rejected"}) => Completed(rid)

\* C18 (amended): over a well-formed non-empty stored list, a run whose
\* storage read returned the entry eventually completes after exactly one
\* status check per account, whatever the status, disable and notification
\* calls return.
C18_RunCompletes == (WellFormedStored /\ ReadReturned(1)) ~> Completed(1)

\* A completed run over two accounts: the first disable call failed, the
\* second status check failed, the last notification was not delivered.
C18_Witness ==
  /\ Completed(1)
  /\ StoredCount = 2
  /\ \E d \in Idx(1, 1, "disable.done") : ~trace[d].res
  /\ \E c \in Idx(1, 2, "check.done") : trace[c].status.isNull
  /\ runs[1].last = "notify" /\ ~runs[1].ret
\* Two triggers may fire: the timer and a /check request, or two of either
\* (lines 242-261 take no lock and keep no record of a run in progress).
\* The stored entry is a well-formed list of two different accounts and the
\* webhook key is configured.
OverlapList == <<AccountNo(1), AccountNo(2)>>

InitOverlap ==
  /\ env = [kv |-> [present |-> TRUE, text |-> Stringify(JArr(OverlapList))],
            key |-> "key"]
  /\ runs = <<>>
  /\ trace = <<>>
  /\ acks = {}
  /\ slots = 2

\* The outcomes the calls of overlapping runs are given: the storage read
\* returns the entry; a status request reports a limit of 50 with the flag
\* absent or true; a disable request succeeds; the webhook accepts the
\* message.
OverlapStatusOutcomes ==
  {o \in StatusOutcomes :
     /\ o.o = GoodBody /\ ~o.body.isNull /\ o.body.hardLimit = {50}
     /\ o.body.noUsageBasedAllowed \in {{}, {TRUE}}}
OverlapDisableOutcomes == {GoodBody}
OverlapWebhookOutcomes == {o \in WebhookOutcomes : o.o = GoodBody /\ o.errcode = 0}

SettleOverlap(rid) ==
  /\ rid \in DOMAIN runs
  /\ \/ KVGetReturn(rid, "value")
     \/ \E o \in OverlapStatusOutcomes : CheckReturn(rid, o)
     \/ \E o \in OverlapStatusOutcomes : CheckBodyReturn(rid, o)
     \/ \E o \in OverlapDisableOutcomes : DisableReturn(rid, o)
     \/ \E o \in OverlapWebhookOutcomes : NotifyReturn(rid, o)
     \/ \E o \in OverlapWebhookOutcomes : NotifyBodyReturn(rid, o)

NextOverlap ==
  \/ scheduled
  \/ fetch("/check")
  \/ \E rid \in DOMAIN runs : SettleOverlap(rid)

SpecOverlap == InitOverlap /\ [][NextOverlap]_vars
\* The run is in progress: it waits for a call to settle.
InProgress(rid) == runs[rid].pc \notin {"done", "rejected"}

\* The run saw the account at position i with a limit of h > 0 and the flag
\* not true.
SawEnabled(rid, i) ==
  \E c \in Idx(rid, i, "check.done") :
    /\ ~trace[c].status.isNull
    /\ trace[c].status.noUsageBasedAllowed # {TRUE}
    /\ \E h \in trace[c].status.hardLimit : h > 0

\* C19: runs are not serialized across triggers: while a run is in progress
\* the timer and a /check request can each start another run, and the
\* pending call of every run in progress can settle whatever the other run
\* is doing, so the steps of the two runs interleave.
C19_RunsAreNotSerialized ==
  /\ slots > 0 => (ENABLED scheduled) /\ (ENABLED fetch("/check"))
  /\ \A rid \in DOMAIN runs : InProgress(rid) => ENABLED SettleOverlap(rid)

\* A run started by the timer and a run started by /check both saw the first
\* account with a positive limit; each issued its own disable call and its
\* own notification for it, the second run's disable call falling between
\* the first run's disable call and its notification, and both runs are still
\* in progress.
C19_Witness ==
  /\ Len(runs) = 2
  /\ runs[1].trigger # runs[2].trigger
  /\ InProgress(1) /\ InProgress(2)
  /\ SawEnabled(1, 1) /\ SawEnabled(2, 1)
  /\ Cardinality(Idx(1, 1, "disable")) = 1 /\ Cardinality(Idx(2, 1, "disable")) = 1
  /\ Cardinality(Idx(1, 1, "notify")) = 1 /\ Cardinality(Idx(2, 1, "notify")) = 1
  /\ \E d1 \in Idx(1, 1, "disable"), d2 \in Idx(2, 1, "disable"),
        n1 \in Idx(1, 1, "notify"), n2 \in Idx(2, 1, "notify") :
        /\ d1 < d2 /\ d2 < n1 /\ n1 < n2
        /\ trace[d1].cred = trace[d2].cred
        /\ trace[n1].msg = trace[n2].msg
\* Two /check requests over the same stored list, with calls that fail: a
\* status request is rejected by the transport or reports a limit of 50
\* with the flag absent, a disable request is refused or succeeds, the
\* webhook accepts the message.  The timer starts the same handleScheduled
\* (lines 243 and 254), so the trigger is not varied here.
FailingStatusOutcomes ==
  {o \in StatusOutcomes :
     \/ o.o = NetError
     \/ o.o = GoodBody /\ ~o.body.isNull /\ o.body.hardLimit = {50}
          /\ o.body.noUsageBasedAllowed = {}}
FailingDisableOutcomes == {HttpError, GoodBody}
FailingWebhookOutcomes == {o \in WebhookOutcomes : o.o = GoodBody /\ o.errcode = 0}

SettleFailing(rid) ==
  /\ rid \in DOMAIN runs
  /\ \/ KVGetReturn(rid, "value")
     \/ \E o \in FailingStatusOutcomes : CheckReturn(rid, o)
     \/ \E o \in FailingStatusOutcomes : CheckBodyReturn(rid, o)
     \/ \E o \in FailingDisableOutcomes : DisableReturn(rid, o)
     \/ \E o \in FailingWebhookOutcomes : NotifyReturn(rid, o)
     \/ \E o \in FailingWebhookOutcomes : NotifyBodyReturn(rid, o)

NextFailing ==
  \/ fetch("/check")
  \/ \E rid \in DOMAIN runs : SettleFailing(rid)

SpecOverlapFailing == InitOverlap /\ [][NextFailing]_vars

\* The account stored at position i of the list.
StoredAccount(i) == OverlapList[i]

\* Positions in the log t of the entries of one kind for one run and list
\* position.
IdxIn(t, rid, i, ev) ==
  {k \in DOMAIN t : t[k].run = rid /\ t[k].idx = i /\ t[k].ev = ev}

\* Entry k of the log t belongs to the account stored at its list position:
\* a status or disable call carries the credential stored there and no
\* other; a disable call follows a status check of the same run and position
\* that carried the same credential and reported the positive limit; a
\* notification or webhook request names the identifier stored there and no
\* other, and follows the call of the same run and position it reports: the
\* failed status check for 'cookie expired', the disable call with the
\* matching result for 'disabled' and 'disable failed'.
CallMatchesAccount(t, k) ==
  LET e == t[k] IN
  /\ e.ev \in {"check", "check.done", "disable", "disable.done"}
       => /\ e.idx \in DOMAIN OverlapList
          /\ e.cred = GetProp(StoredAccount(e.idx), "cookie")
          /\ \A j \in DOMAIN OverlapList \ {e.idx} :
               e.cred # GetProp(StoredAccount(j), "cookie")
  /\ e.ev = "disable"
       => \E c \in IdxIn(t, e.run, e.idx, "check.done") :
            /\ c < k
            /\ t[c].cred = e.cred
            /\ ~t[c].status.isNull
            /\ \E h \in t[c].status.hardLimit : h > 0
  /\ e.ev \in {"notify", "webhook", "webhook.done"}
       => /\ e.idx \in DOMAIN OverlapList
          /\ e.msg.email = GetProp(StoredAccount(e.idx), "email")
          /\ \A j \in DOMAIN OverlapList \ {e.idx} :
               e.msg.email # GetProp(StoredAccount(j), "email")
          /\ e.msg.kind \in {"cookie_expired", "disabled", "disable_failed"}
          /\ e.msg.kind = "cookie_expired"
               => \E c \in IdxIn(t, e.run, e.idx, "check.done") :
                    /\ c < k
                    /\ t[c].status.isNull
                    /\ t[c].cred = GetProp(StoredAccount(e.idx), "cookie")
          /\ e.msg.kind \in {"disabled", "disable_failed"}
               => \E d \in IdxIn(t, e.run, e.idx, "disable.done") :
                    /\ d < k
                    /\ t[d].cred = GetProp(StoredAccount(e.idx), "cookie")
                    /\ t[d].res <=> e.msg.kind = "disabled"

\* Every step keeps the log and appends only entries that belong to the
\* account stored at their position.
AppendsMatchingCalls ==
  /\ Len(trace') >= Len(trace)
  /\ SubSeq(trace', 1, Len(trace)) = trace
  /\ \A k \in (Len(trace) + 1)..Len(trace') : CallMatchesAccount(trace', k)

\* C20: accounts are never mixed up, also when runs overlap: every call a
\* step issues (status check, disable call, notification, webhook request)
\* carries the credential or identifier of the account stored at its list
\* position and of no other account, and follows, in the same run and at the
\* same position, the call whose result it acts on.
C20_AccountsNeverMixedUp == [][AppendsMatchingCalls]_vars

\* Two overlapping runs are at different accounts and both report a failure:
\* the first run disabled the first account and issued the disable call of
\* the second; the second run then failed the status check of the first
\* account and sent 'cookie expired' for it; then the first run's disable
\* call was refused and it sent 'disable failed' for the second account.
C20_Witness ==
  /\ Len(runs) = 2
  /\ runs[1].idx = 2 /\ runs[1].pc = "notify"
  /\ runs[2].idx = 1 /\ runs[2].pc = "notify"
  /\ \E d \in Idx(1, 1, "disable.done") : trace[d].res /\ trace[d].cred = "c1"
  /\ \E d1 \in Idx(1, 2, "disable"), r1 \in Idx(1, 2, "disable.done"),
        n1 \in Idx(1, 2, "notify"), c2 \in Idx(2, 1, "check.done"),
        n2 \in Idx(2, 1, "notify") :
        /\ d1 < c2 /\ c2 < n2 /\ n2 < r1 /\ r1 < n1
        /\ trace[d1].cred = "c2" /\ ~trace[r1].res
        /\ trace[c2].cred = "c1" /\ trace[c2].status.isNull
        /\ trace[n1].msg = MsgDisableFailed("b@x.com")
        /\ trace[n2].msg = MsgExpired("a@x.com")
====
